---- MODULE Spec2Model ----
\* A model of the Wake-on-LAN server src/app.py: the device registry
\* (devices_config), its backing file (devices.yaml), the status cache
\* (device_status, guarded by status_lock), the request handlers and the
\* refresh-all fan-out (check_all_devices).
\*
\* Every handler is a thread that runs from "idle" to "done" in steps; a step is
\* one statement (or a run of statements that touch no shared state besides the
\* one the step is named for), so that the interleavings of concurrently served
\* requests are the ones the threaded HTTP layer can produce. A block
\* `with status_lock: <statement>` is one step: the lock makes these blocks
\* exclude each other and none of them blocks inside, so each is atomic.
EXTENDS Integers, Sequences, FiniteSets, TLC

\* ---------------------------------------------------------------- bounds
\* a behaviour holds at most MaxRequests requests
MaxRequests == 2

\* ---------------------------------------------------------------- values
Handlers == {1, 2}
Names == {"PC1", "PC2"}
\* dict iteration order of a registry loaded from the file: yaml.dump sorts keys
NameOrder == <<"PC1", "PC2">>
IPs == {"10.0.0.5", "10.0.0.6"}
\* a MAC in its textual form, one character per element
MAC1 == <<"A","A",":","B","B",":","C","C",":","D","D",":","E","E",":","F","F">>
\* another MAC, written with '-', and a text that is no MAC
MAC2 == <<"1","1","-","2","2","-","3","3","-","4","4","-","5","5","-","6","6">>
BadMac == <<"Z","Z">>
EmptyStr == << >>
\* Python's None / JSON null
None == "null"
\* time.time() is never 0: 0 stands for last_checked = None (line 298)
NoTime == 0
DefaultPort == 9
DefaultSubnet == "255.255.255.0"

\* ---------------------------------------------------------------- dicts
EmptyMap == [k \in {} |-> None]
Put(m, k, v) == [x \in (DOMAIN m) \cup {k} |-> IF x = k THEN v ELSE m[x]]
Del(m, k) == [x \in (DOMAIN m) \ {k} |-> m[x]]
\* dict.update
DictUpdate(m, r) == [x \in (DOMAIN m) \cup (DOMAIN r) |-> IF x \in DOMAIN r THEN r[x] ELSE m[x]]
\* dict.get(key, default)
Get(m, k, default) == IF k \in DOMAIN m THEN m[k] ELSE default
\* `not data.get(key)` for a text field: absent or empty
Falsy(data, k) == k \notin DOMAIN data \/ data[k] = (IF k = "mac" THEN EmptyStr ELSE "")

\* ---------------------------------------------------------------- send_magic_packet
\* text is a sequence of characters
Separators == {":", "-"}
\* str.isspace for ASCII
Whitespace == {" ", "\t"}
HexValue ==
    [c \in {"0","1","2","3","4","5","6","7","8","9","A","B","C","D","E","F",
            "a","b","c","d","e","f"} |->
        CASE c = "0" -> 0 [] c = "1" -> 1 [] c = "2" -> 2 [] c = "3" -> 3 [] c = "4" -> 4
          [] c = "5" -> 5 [] c = "6" -> 6 [] c = "7" -> 7 [] c = "8" -> 8 [] c = "9" -> 9
          [] c \in {"A", "a"} -> 10 [] c \in {"B", "b"} -> 11 [] c \in {"C", "c"} -> 12
          [] c \in {"D", "d"} -> 13 [] c \in {"E", "e"} -> 14 [] c \in {"F", "f"} -> 15]
HexDigits == DOMAIN HexValue
\* str.upper, one character
UpperChar(c) ==
    CASE c = "a" -> "A" [] c = "b" -> "B" [] c = "c" -> "C" [] c = "d" -> "D"
      [] c = "e" -> "E" [] c = "f" -> "F" [] c = "g" -> "G" [] OTHER -> c
\* Normalize with the fault of '-' left in the text
NormalizeColonsOnly(mac) ==
    LET stripped == SelectSeq(mac, LAMBDA c : c # ":")
    IN  [i \in 1..Len(stripped) |-> UpperChar(stripped[i])]
\* line 154: mac_address.replace(':', '').replace('-', '').upper()
Normalize(mac) ==
    LET stripped == SelectSeq(mac, LAMBDA c : c \notin Separators)
    IN  [i \in 1..Len(stripped) |-> UpperChar(stripped[i])]
\* bytes.fromhex: whitespace is skipped before every pair of hex digits and at
\* the end; anything else raises ValueError. <<ok, bytes>>
RECURSIVE FromHex(_)
FromHex(s) ==
    IF s = << >> THEN <<TRUE, << >>>>
    ELSE IF Head(s) \in Whitespace THEN FromHex(Tail(s))
    ELSE IF Len(s) >= 2 /\ s[1] \in HexDigits /\ s[2] \in HexDigits
      THEN LET rest == FromHex(SubSeq(s, 3, Len(s)))
           IN  <<rest[1], <<16 * HexValue[s[1]] + HexValue[s[2]]>> \o rest[2]>>
    ELSE <<FALSE, << >>>>
\* bytes * n
RECURSIVE Repeat(_, _)
Repeat(bytes, n) == IF n = 0 THEN << >> ELSE bytes \o Repeat(bytes, n - 1)
\* line 164: b'\xFF' * 6 + mac_bytes * 16
MagicPacket(mac_bytes) == Repeat(<<255>>, 6) \o Repeat(mac_bytes, 16)
\* ip_address.split('.') of the addresses in use
IpParts ==
    [ip \in {"10.0.0.5", "10.0.0.6"} |->
        IF ip = "10.0.0.5" THEN <<"10", "0", "0", "5">> ELSE <<"10", "0", "0", "6">>]
\* line 171: '.'.join(ip_address.split('.')[:-1]) + '.255', as its parts
BroadcastIp(ip) == SubSeq(IpParts[ip], 1, Len(IpParts[ip]) - 1) \o <<"255">>
NoDatagram == [sent |-> FALSE]
\* lines 148-178, send_magic_packet: what it returns and the datagram it hands
\* to sock.sendto, which raises OSError when the network is down (netup FALSE)
SendMagicPacket(mac_address, ip_address, port, netup) ==
    LET mac == Normalize(mac_address)
        hex == FromHex(mac)
    IN  IF Len(mac) # 12 \/ ~hex[1] \/ ~netup
          THEN [success |-> FALSE, datagram |-> NoDatagram]
          ELSE [success |-> TRUE,
                datagram |-> [sent |-> TRUE, payload |-> MagicPacket(hex[2]),
                              addr |-> BroadcastIp(ip_address), port |-> port]]

\* the texts send_magic_packet is tried with: gaps[i] is written after bytes[i]
RECURSIVE Spell(_, _)
Spell(bytes, gaps) ==
    IF bytes = << >> THEN << >>
    ELSE Head(bytes) \o Head(gaps) \o Spell(Tail(bytes), Tail(gaps))
\* the bytes AA BB CC DD EE FF in upper, lower and mixed case
MacBytes ==
    {<<<<"A","A">>, <<"B","B">>, <<"C","C">>, <<"D","D">>, <<"E","E">>, <<"F","F">>>>,
     <<<<"a","a">>, <<"b","b">>, <<"c","c">>, <<"d","d">>, <<"e","e">>, <<"f","f">>>>,
     <<<<"a","A">>, <<"B","b">>, <<"C","C">>, <<"d","d">>, <<"e","E">>, <<"F","f">>>>}
Gaps(n, texts) == [1..n -> texts]
\* all spellings of the one MAC with ':', '-' or nothing between the bytes
MacForms ==
    {Spell(b, g \o <<EmptyStr>>) : b \in MacBytes, g \in Gaps(5, {<<":">>, <<"-">>, EmptyStr})}
\* texts with a byte missing or one too many, with a character that is no hex
\* digit, or with blanks between or after the bytes
OddMacs ==
    {Spell(SubSeq(b, 1, 5), g) : b \in MacBytes, g \in Gaps(5, {<<" ">>, EmptyStr})}
    \cup {Spell(b, g \o <<EmptyStr>>) \o x : b \in MacBytes, g \in Gaps(5, {<<":">>}),
                                            x \in {<<"0">>, <<"0", "1">>, <<" ">>}}
    \cup {Spell(<<x>> \o SubSeq(b, 2, 6), g \o <<EmptyStr>>) :
             b \in MacBytes, g \in Gaps(5, {<<":">>, EmptyStr}),
             x \in {<<"G", "G">>, <<"0", "x">>, <<" ", "A">>, <<"A", " ">>, <<"A">>}}
MacInputs == MacForms \cup OddMacs

\* ---------------------------------------------------------------- records
DeviceRecord(mac, ip, port, subnet) == [mac |-> mac, ip |-> ip, port |-> port, subnet |-> subnet]
\* a record of an edited file that lacks the ip field
NoIpRecord == [mac |-> MAC1, port |-> DefaultPort, subnet |-> DefaultSubnet]
StatusInfo(online, now, ip) ==
    [online |-> online, response_time |-> IF online = "true" THEN "ms" ELSE None,
     last_checked |-> now, ip |-> ip]
\* the default of device_status.get in get_devices
UnknownStatus(ip) == [online |-> None, response_time |-> None, last_checked |-> NoTime, ip |-> ip]

\* JSON request bodies: a dict of the fields the client sent
ValidPayloads ==
    {[name |-> "PC1", mac |-> MAC1, ip |-> "10.0.0.5"],
     [name |-> "PC2", mac |-> MAC1, ip |-> "10.0.0.6"],
     [mac |-> MAC1, ip |-> "10.0.0.6"],
     [name |-> "PC2", mac |-> BadMac, ip |-> "10.0.0.6"]}
InvalidPayloads ==
    {EmptyMap,
     [name |-> "PC1", ip |-> "10.0.0.5"],
     [name |-> "PC1", mac |-> EmptyStr, ip |-> "10.0.0.5"],
     [name |-> "PC2", mac |-> MAC1],
     [name |-> "PC2", mac |-> MAC1, ip |-> ""],
     [name |-> "", mac |-> MAC1, ip |-> "10.0.0.5"]}
Payloads == ValidPayloads \cup InvalidPayloads
\* the bodies PUT is tried with (a rename to the empty name is left out)
UpdatePayloads == {data \in Payloads : Get(data, "name", "PC1") # ""}

\* the bodies POST /wake is tried with
WakePayloads ==
    {EmptyMap,
     [device_name |-> "PC1"],
     [device_name |-> "PC1", mac |-> MAC2, ip |-> "10.0.0.6", port |-> 7],
     [device_name |-> "PC2", mac |-> MAC2, ip |-> "10.0.0.6", port |-> 7],
     [mac |-> MAC2, ip |-> "10.0.0.6"],
     [device_name |-> "PC2", ip |-> "10.0.0.6"],
     [device_name |-> "PC2", mac |-> MAC2],
     [mac |-> BadMac, ip |-> "10.0.0.6"]}

\* ---------------------------------------------------------------- the file
\* devices.yaml: missing, unparsable, or a YAML document
MissingFile == [kind |-> "missing", data |-> EmptyMap]
CorruptFile == [kind |-> "corrupt", data |-> EmptyMap]
\* yaml.dump of the config_data of save_devices; yaml.safe_load gives it back
ConfigData(devices) == [devices |-> devices, version |-> "1.0", created_by |-> "WoLow Wake-on-LAN App"]
YamlFile(devices) == [kind |-> "yaml", data |-> ConfigData(devices)]
\* the value load_devices returns
LoadResult(f) == IF f.kind = "yaml" THEN Get(f.data, "devices", EmptyMap) ELSE EmptyMap
\* the file load_devices leaves: a missing file is created when it can be written
LoadFile(f, writable) == IF f.kind = "missing" /\ writable THEN YamlFile(EmptyMap) ELSE f
\* save_devices with the fault of reporting success without writing
SaveDevicesUnwritten(f, devices, writable) == <<writable, f>>
\* save_devices: <<returned value, file left>>; open(CONFIG_FILE, 'w') raises on a
\* file that cannot be written and leaves it as it was
SaveDevices(f, devices, writable) == IF writable THEN <<TRUE, YamlFile(devices)>> ELSE <<FALSE, f>>

Rec1 == DeviceRecord(MAC1, "10.0.0.5", DefaultPort, DefaultSubnet)
Rec2 == DeviceRecord(MAC1, "10.0.0.6", DefaultPort, DefaultSubnet)
\* the files the server can be started on
InitFiles ==
    {MissingFile, CorruptFile,
     YamlFile([n \in {"PC1"} |-> Rec1]),
     YamlFile([n \in Names |-> IF n = "PC1" THEN Rec1 ELSE Rec2]),
     YamlFile([n \in Names |-> IF n = "PC1" THEN Rec1 ELSE NoIpRecord])}

\* a value of the document that is no mapping: null or a list
Null == [yaml_type |-> "null"]
List == [yaml_type |-> "list"]
\* the files load_devices is tried with
LoadFiles ==
    InitFiles
    \cup {[kind |-> "yaml", data |-> EmptyMap],
          [kind |-> "yaml", data |-> [version |-> "1.0"]],
          [kind |-> "yaml", data |-> [devices |-> EmptyMap, version |-> "1.0"]],
          [kind |-> "yaml", data |-> [devices |-> Null, version |-> "1.0"]],
          [kind |-> "yaml", data |-> [devices |-> List, version |-> "1.0"]],
          [kind |-> "toplist", data |-> EmptyMap]}

\* ---------------------------------------------------------------- state
VARIABLES
    file,            \* devices.yaml
    devices_config,  \* the global devices_config: the in-memory registry
    device_status,   \* the global device_status: the status cache
    clock,           \* time.time(), advanced by every probe
    served,          \* the number of requests accepted so far
    phase,           \* "boot": module import not yet run; "startup": the check of
                     \* line 146 is running; "serving": app.run serves requests
    workload,        \* how requests arrive: "threads" (any request on any thread),
                     \* "sequential" (no request overlaps another or a running
                     \* check_all_devices), "listing" (only GET /devices overlaps
                     \* another request)
    th,              \* the request threads: position, request and locals
    refresh,         \* the thread running check_all_devices and its ping workers
    call             \* the last direct call of load_devices or send_magic_packet:
                     \* its arguments and what it returned

vars == <<file, devices_config, device_status, clock, served, phase, workload, th, refresh, call>>

\* a thread that serves no request. op, name, data: the request; new_name, rec,
\* ip, status_info, loaded: the handler's locals; code, body: the response;
\* pre: the registry and the status cache when the request arrived (history,
\* read by the properties only)
NoPre == [config |-> EmptyMap, status |-> EmptyMap]
\* wol: the call of send_magic_packet the handler made, if any
NoWol == [called |-> FALSE]
IdleThread ==
    [pc |-> "idle", op |-> "", name |-> "", data |-> EmptyMap, new_name |-> "",
     rec |-> EmptyMap, ip |-> "", status_info |-> EmptyMap, loaded |-> EmptyMap,
     code |-> 0, body |-> EmptyMap, pre |-> NoPre, wol |-> NoWol]
\* no check_all_devices is running. devices, results: its locals; worker: the
\* state of each ping_worker thread; tojoin: the threads not yet joined
IdleRefresh ==
    [pc |-> "idle", devices |-> EmptyMap, worker |-> EmptyMap, results |-> EmptyMap,
     tojoin |-> << >>]

NoCall == [fn |-> ""]
Start ==
    /\ file \in InitFiles
    /\ devices_config = EmptyMap
    /\ device_status = EmptyMap
    /\ clock = 0
    /\ served = 0
    /\ phase = "boot"
    /\ th = [t \in Handlers |-> IdleThread]
    /\ refresh = IdleRefresh
    /\ call = NoCall

\* a request arrives at thread t
Request(t, op, name, data) ==
    [IdleThread EXCEPT !.op = op, !.name = name, !.data = data,
                       !.pre = [config |-> devices_config, status |-> device_status]]
\* the handler returns jsonify(body), code
Respond(r, code, body) == [r EXCEPT !.pc = "done", !.code = code, !.body = body]
\* jsonify({'error': ...})
Error(message) == [error |-> message]
NotFound == Error("Device not found")
SaveFailed == Error("Failed to save device configuration")
ServerError == Error("Server error")
Success == [success |-> TRUE]
\* lines 429-436, 505-512: the body of a successful add or update
Added(device) == [success |-> TRUE, device |-> device]
\* lines 368-372: the body of a successful ping
Pinged(name, status_info) == [success |-> TRUE, device_name |-> name, status |-> status_info]

\* a thread that has built its response sends it, and a check_all_devices that
\* has updated the cache returns, before any other thread moves: neither touches
\* shared state, so this fixes one order among equivalent ones
NoResponsePending == refresh.pc # "finished" /\ \A u \in Handlers : th[u].pc # "done"
At(t, pc) == NoResponsePending /\ th[t].pc = pc
RefreshAt(pc) == NoResponsePending /\ refresh.pc = pc
\* thread t takes a request (the lowest idle thread: the threads are alike)
Accept(t, op) ==
    /\ phase = "serving"
    /\ At(t, "idle")
    /\ \A u \in Handlers : u < t => th[u].pc # "idle"
    /\ workload = "sequential" => refresh.pc = "idle" /\ \A u \in Handlers : th[u].pc = "idle"
    /\ workload = "listing" => op = "get" \/ \A u \in Handlers : th[u].op \in {"", "get"}
    /\ workload = "probing" => \A u \in Handlers : th[u].op \in {"", "ping", "check"}
    /\ served < MaxRequests
    /\ served' = served + 1

\* the network: the hosts that answer an echo request
Reachable == {"10.0.0.5"}
\* lines 66-95, ping_device: is_online
PingDevice(ip) == IF ip \in Reachable THEN "true" ELSE "false"
\* the status record the callers of ping_device build from its result and
\* time.time() (lines 116-121, 356-361, 419-424, 495-500)
ProbeStatus(ip) == StatusInfo(PingDevice(ip), clock + 1, ip)

\* ---------------------------------------------------------------- startup
\* lines 144-146: devices_config = load_devices(); if devices_config: check_all_devices()
Boot ==
    /\ phase = "boot"
    /\ \E writable \in BOOLEAN :
         /\ devices_config' = LoadResult(file)
         /\ file' = LoadFile(file, writable)
    /\ IF DOMAIN devices_config' # {}
         THEN phase' = "startup" /\ refresh' = [IdleRefresh EXCEPT !.pc = "load"]
         ELSE phase' = "serving" /\ refresh' = refresh
    /\ UNCHANGED <<device_status, clock, th, served, workload, call>>

\* ---------------------------------------------------------------- check_all_devices
\* lines 102-131: load the devices, return when there are none, else start one
\* ping_worker thread per device
RefreshLoad ==
    /\ RefreshAt("load")
    /\ \E writable \in BOOLEAN : file' = LoadFile(file, writable)
    /\ LET devices == LoadResult(file) IN
         IF DOMAIN devices = {}
           THEN /\ refresh' = IdleRefresh
                /\ phase' = "serving"
           ELSE /\ refresh' = [pc |-> "join", devices |-> devices,
                               worker |-> [d \in DOMAIN devices |-> "running"],
                               results |-> EmptyMap,
                               tojoin |-> SelectSeq(NameOrder, LAMBDA n : n \in DOMAIN devices)]
                /\ phase' = phase
    /\ UNCHANGED <<devices_config, device_status, clock, th, served, workload, call>>

\* PingWorker with the fault of workers that run one after the other, in the
\* order they were created
PingWorkerInTurn(d) ==
    /\ NoResponsePending
    /\ refresh.pc \in {"join", "update"}
    /\ d \in DOMAIN refresh.worker
    /\ refresh.worker[d] \in {"running", "hung"}
    /\ \A i, j \in 1..Len(NameOrder) :
          (i < j /\ NameOrder[j] = d /\ NameOrder[i] \in DOMAIN refresh.worker)
              => refresh.worker[NameOrder[i]] \notin {"running", "hung"}
    /\ IF "ip" \notin DOMAIN refresh.devices[d]
         THEN /\ refresh' = [refresh EXCEPT !.worker[d] = "raised"]
              /\ clock' = clock
         ELSE /\ clock' = clock + 1
              /\ refresh' = [refresh EXCEPT
                       !.worker[d] = "done",
                       !.results = Put(@, d, ProbeStatus(refresh.devices[d].ip))]
    /\ UNCHANGED <<file, devices_config, device_status, phase, th, served, workload, call>>

\* PingWorker with the fault of an exception that is not confined to its
\* thread: the KeyError ends check_all_devices before line 138
PingWorkerAborting(d) ==
    /\ NoResponsePending
    /\ refresh.pc \in {"join", "update"}
    /\ d \in DOMAIN refresh.worker
    /\ refresh.worker[d] \in {"running", "hung"}
    /\ IF "ip" \notin DOMAIN refresh.devices[d]
         THEN /\ refresh' = [refresh EXCEPT !.worker[d] = "raised", !.pc = "finished"]
              /\ clock' = clock
         ELSE /\ clock' = clock + 1
              /\ refresh' = [refresh EXCEPT
                       !.worker[d] = "done",
                       !.results = Put(@, d, ProbeStatus(refresh.devices[d].ip))]
    /\ UNCHANGED <<file, devices_config, device_status, phase, th, served, workload, call>>

\* lines 113-125, ping_worker: device_info['ip'] raises KeyError in the worker
\* thread when the record has no ip, and that thread alone ends; else the probe
\* runs and its result is stored in the local dict results
PingWorker(d) ==
    /\ NoResponsePending
    /\ refresh.pc \in {"join", "update"}
    /\ d \in DOMAIN refresh.worker
    /\ refresh.worker[d] \in {"running", "hung"}
    /\ IF "ip" \notin DOMAIN refresh.devices[d]
         THEN /\ refresh' = [refresh EXCEPT !.worker[d] = "raised"]
              /\ clock' = clock
         ELSE /\ clock' = clock + 1
              /\ refresh' = [refresh EXCEPT
                       !.worker[d] = "done",
                       !.results = Put(@, d, ProbeStatus(refresh.devices[d].ip))]
    /\ UNCHANGED <<file, devices_config, device_status, phase, th, served, workload, call>>

\* a worker that takes longer than the 5 seconds thread.join waits for it
WorkerHang(d) ==
    /\ NoResponsePending
    /\ refresh.pc \in {"join", "update"}
    /\ d \in DOMAIN refresh.worker
    /\ refresh.worker[d] = "running"
    /\ refresh' = [refresh EXCEPT !.worker[d] = "hung"]
    /\ UNCHANGED <<file, devices_config, device_status, clock, phase, th, served, workload, call>>

\* line 135: the seconds thread.join waits for a worker
JoinTimeout == 5
\* line 82: the seconds after which subprocess.run gives a ping up (timeout + 1)
PingLimit == 4
\* lines 134-135 in time: the workers were all started at 0 (lines 128-131) and
\* worker d ends at finish[d]; each join returns when its worker has ended or
\* JoinTimeout after it was called; the value is the time the loop is left
RECURSIVE JoinLoop(_, _, _)
JoinLoop(tojoin, finish, now) ==
    IF tojoin = << >> THEN now
    ELSE LET end == finish[Head(tojoin)]
         IN  JoinLoop(Tail(tojoin), finish,
                      IF end <= now THEN now
                      ELSE IF end <= now + JoinTimeout THEN end ELSE now + JoinTimeout)

\* lines 134-135: thread.join(timeout=5) returns when the worker has ended or
\* the timeout has passed
RefreshJoin ==
    /\ RefreshAt("join")
    /\ refresh.worker[Head(refresh.tojoin)] # "running"
    /\ refresh' = [refresh EXCEPT !.tojoin = Tail(@),
                                  !.pc = IF Tail(refresh.tojoin) = << >> THEN "update" ELSE "join"]
    /\ UNCHANGED <<file, devices_config, device_status, clock, phase, th, served, workload, call>>

\* lines 138-139: with status_lock: device_status.update(results)
RefreshUpdate ==
    /\ RefreshAt("update")
    /\ device_status' = DictUpdate(device_status, refresh.results)
    /\ refresh' = [refresh EXCEPT !.pc = "finished"]
    /\ UNCHANGED <<file, devices_config, clock, phase, th, served, workload, call>>

\* line 141: check_all_devices returns; what a worker still running stores in
\* results after this is never read
RefreshReturn ==
    /\ refresh.pc = "finished"
    /\ refresh' = IdleRefresh
    /\ phase' = "serving"
    /\ UNCHANGED <<file, devices_config, device_status, clock, th, served, workload, call>>

\* ---------------------------------------------------------------- POST /devices/check
\* lines 317-336: start check_all_devices in a thread of its own and return
\* (one check_all_devices at a time: a check requested while one runs is left out)
CheckDeviceStatus(t) ==
    /\ Accept(t, "check")
    /\ RefreshAt("idle")
    /\ refresh' = [IdleRefresh EXCEPT !.pc = "load"]
    /\ th' = [th EXCEPT ![t] = Respond(Request(t, "check", "", EmptyMap), 200, Success)]
    /\ UNCHANGED <<file, devices_config, device_status, clock, phase, workload, call>>

\* ---------------------------------------------------------------- GET /devices
\* line 288, right-hand side: load_devices()
GetLoad(t) ==
    /\ Accept(t, "get")
    /\ \E writable \in BOOLEAN : file' = LoadFile(file, writable)
    /\ th' = [th EXCEPT ![t] = [Request(t, "get", "", EmptyMap) EXCEPT
                                   !.pc = "get_assign", !.loaded = LoadResult(file)]]
    /\ UNCHANGED <<devices_config, device_status, clock, phase, refresh, workload, call>>

\* line 288, the assignment to the global
GetAssign(t) ==
    /\ At(t, "get_assign")
    /\ devices_config' = th[t].loaded
    /\ th' = [th EXCEPT ![t].pc = "get_merge"]
    /\ UNCHANGED <<file, device_status, clock, phase, refresh, served, workload, call>>

\* lines 291-305: every record merged with its status
DevicesWithStatus(devices, status) ==
    [n \in DOMAIN devices |->
        Put(devices[n], "status", Get(status, n, UnknownStatus(devices[n].ip)))]
\* lines 293-307: the default of device_status.get is built before the lookup,
\* so a record without ip raises KeyError, which leaves the handler with a 500
GetMerge(t) ==
    /\ At(t, "get_merge")
    /\ th' = [th EXCEPT ![t] =
                IF \E n \in DOMAIN devices_config : "ip" \notin DOMAIN devices_config[n]
                  THEN Respond(th[t], 500, ServerError)
                  ELSE Respond(th[t], 200, DevicesWithStatus(devices_config, device_status))]
    /\ UNCHANGED <<file, devices_config, device_status, clock, phase, refresh, served, workload, call>>

\* ---------------------------------------------------------------- POST /devices
\* lines 387-403: the error of a request body, "" when it has none
AddError(data) ==
    IF data = EmptyMap THEN "No JSON data provided"
    ELSE IF Falsy(data, "name") THEN "Device name is required"
    ELSE IF Falsy(data, "mac") THEN "MAC address is required"
    ELSE IF Falsy(data, "ip") THEN "IP address is required"
    ELSE ""
\* lines 392-395, 406-411 and 462-465, 482-487: the record built from the body
RecordOf(data) ==
    DeviceRecord(data.mac, data.ip, Get(data, "port", DefaultPort),
                 Get(data, "subnet", DefaultSubnet))
\* lines 385-411: validation, then devices_config[device_name] = {...}
AddDevice(t, data) ==
    /\ Accept(t, "add")
    /\ LET req == Request(t, "add", "", data) IN
         IF AddError(data) # ""
           THEN /\ th' = [th EXCEPT ![t] = Respond(req, 400, Error(AddError(data)))]
                /\ devices_config' = devices_config
           ELSE /\ devices_config' = Put(devices_config, data.name, RecordOf(data))
                /\ th' = [th EXCEPT ![t] = [req EXCEPT !.pc = "add_save", !.name = data.name,
                                                       !.rec = RecordOf(data), !.ip = data.ip]]
    /\ UNCHANGED <<file, device_status, clock, phase, refresh, workload, call>>

\* line 414: save_devices(devices_config); line 438 when it returns False
AddSave(t) ==
    /\ At(t, "add_save")
    /\ \E writable \in BOOLEAN :
         LET saved == SaveDevices(file, devices_config, writable) IN
         /\ file' = saved[2]
         /\ th' = [th EXCEPT ![t] = IF saved[1] THEN [th[t] EXCEPT !.pc = "add_ping"]
                                     ELSE Respond(th[t], 500, SaveFailed)]
    /\ UNCHANGED <<devices_config, device_status, clock, phase, refresh, served, workload, call>>

\* lines 418-424: ping_device(ip_address) and the status_info built from it
AddPing(t) ==
    /\ At(t, "add_ping")
    /\ clock' = clock + 1
    /\ th' = [th EXCEPT ![t].pc = "add_status", ![t].status_info = ProbeStatus(th[t].ip)]
    /\ UNCHANGED <<file, devices_config, device_status, phase, refresh, served, workload, call>>

\* AddStatus with the fault of a probe result that is not stored
AddStatusSkipped(t) ==
    /\ At(t, "add_status")
    /\ device_status' = device_status
    /\ th' = [th EXCEPT ![t].pc = "add_resp"]
    /\ UNCHANGED <<file, devices_config, clock, phase, refresh, served, workload, call>>

\* lines 426-427: with status_lock: device_status[device_name] = status_info
AddStatus(t) ==
    /\ At(t, "add_status")
    /\ device_status' = Put(device_status, th[t].name, th[t].status_info)
    /\ th' = [th EXCEPT ![t].pc = "add_resp"]
    /\ UNCHANGED <<file, devices_config, clock, phase, refresh, served, workload, call>>

\* lines 429-436: the response reads devices_config[device_name]; KeyError
\* (the registry was replaced meanwhile) is caught at line 440: 500
AddRespond(t) ==
    /\ At(t, "add_resp")
    /\ th' = [th EXCEPT ![t] =
                IF th[t].name \in DOMAIN devices_config
                  THEN Respond(th[t], 200, Added(Put(devices_config[th[t].name], "status", th[t].status_info)))
                  ELSE Respond(th[t], 500, ServerError)]
    /\ UNCHANGED <<file, devices_config, device_status, clock, phase, refresh, served, workload, call>>

\* ---------------------------------------------------------------- PUT /devices/<device_name>
\* UpdateDevice with the checks of lines 453 and 457 in the other order
UpdateDeviceNotFoundFirst(t, name, data) ==
    /\ Accept(t, "update")
    /\ LET req == Request(t, "update", name, data) IN
         th' = [th EXCEPT ![t] =
            IF name \notin DOMAIN devices_config THEN Respond(req, 404, NotFound)
            ELSE IF data = EmptyMap THEN Respond(req, 400, Error("No JSON data provided"))
            ELSE IF Falsy(data, "mac") THEN Respond(req, 400, Error("MAC address is required"))
            ELSE IF Falsy(data, "ip") THEN Respond(req, 400, Error("IP address is required"))
            ELSE [req EXCEPT
                    !.new_name = Get(data, "name", name),
                    !.rec = RecordOf(data),
                    !.ip = data.ip,
                    !.pc = IF Get(data, "name", name) # name THEN "upd_del" ELSE "upd_set"]]
    /\ UNCHANGED <<file, devices_config, device_status, clock, phase, refresh, workload, call>>

\* lines 451-471: the checks; nothing shared is written
UpdateDevice(t, name, data) ==
    /\ Accept(t, "update")
    /\ LET req == Request(t, "update", name, data) IN
         th' = [th EXCEPT ![t] =
            IF data = EmptyMap THEN Respond(req, 400, Error("No JSON data provided"))
            ELSE IF name \notin DOMAIN devices_config THEN Respond(req, 404, NotFound)
            ELSE IF Falsy(data, "mac") THEN Respond(req, 400, Error("MAC address is required"))
            ELSE IF Falsy(data, "ip") THEN Respond(req, 400, Error("IP address is required"))
            ELSE [req EXCEPT
                    !.new_name = Get(data, "name", name),
                    !.rec = RecordOf(data),
                    !.ip = data.ip,
                    !.pc = IF Get(data, "name", name) # name THEN "upd_del" ELSE "upd_set"]]
    /\ UNCHANGED <<file, devices_config, device_status, clock, phase, refresh, workload, call>>

\* line 475: del devices_config[device_name]; KeyError is caught at line 516: 500
UpdateRemove(t) ==
    /\ At(t, "upd_del")
    /\ IF th[t].name \in DOMAIN devices_config
         THEN /\ devices_config' = Del(devices_config, th[t].name)
              /\ th' = [th EXCEPT ![t].pc = "upd_move"]
         ELSE /\ devices_config' = devices_config
              /\ th' = [th EXCEPT ![t] = Respond(th[t], 500, ServerError)]
    /\ UNCHANGED <<file, device_status, clock, phase, refresh, served, workload, call>>

\* lines 478-479: device_status[new_name] = device_status.pop(device_name)
MoveStatus(status, old, new) ==
    IF old \in DOMAIN status THEN Put(Del(status, old), new, status[old]) ELSE status
UpdateMoveStatus(t) ==
    /\ At(t, "upd_move")
    /\ device_status' = MoveStatus(device_status, th[t].name, th[t].new_name)
    /\ th' = [th EXCEPT ![t].pc = "upd_set"]
    /\ UNCHANGED <<file, devices_config, clock, phase, refresh, served, workload, call>>

\* lines 482-487: devices_config[new_name] = {...}
UpdateSet(t) ==
    /\ At(t, "upd_set")
    /\ devices_config' = Put(devices_config, th[t].new_name, th[t].rec)
    /\ th' = [th EXCEPT ![t].pc = "upd_save"]
    /\ UNCHANGED <<file, device_status, clock, phase, refresh, served, workload, call>>

\* line 490: save_devices(devices_config); line 514 when it returns False
UpdateSave(t) ==
    /\ At(t, "upd_save")
    /\ \E writable \in BOOLEAN :
         LET saved == SaveDevices(file, devices_config, writable) IN
         /\ file' = saved[2]
         /\ th' = [th EXCEPT ![t] = IF saved[1] THEN [th[t] EXCEPT !.pc = "upd_ping"]
                                     ELSE Respond(th[t], 500, SaveFailed)]
    /\ UNCHANGED <<devices_config, device_status, clock, phase, refresh, served, workload, call>>

\* lines 494-500: ping_device(ip_address) and the status_info built from it
UpdatePing(t) ==
    /\ At(t, "upd_ping")
    /\ clock' = clock + 1
    /\ th' = [th EXCEPT ![t].pc = "upd_status", ![t].status_info = ProbeStatus(th[t].ip)]
    /\ UNCHANGED <<file, devices_config, device_status, phase, refresh, served, workload, call>>

\* UpdateStatus with the fault of storing the probe under the name of the URL
UpdateStatusUnderOldName(t) ==
    /\ At(t, "upd_status")
    /\ device_status' = Put(device_status, th[t].name, th[t].status_info)
    /\ th' = [th EXCEPT ![t].pc = "upd_resp"]
    /\ UNCHANGED <<file, devices_config, clock, phase, refresh, served, workload, call>>

\* line 503: device_status[new_name] = status_info
UpdateStatus(t) ==
    /\ At(t, "upd_status")
    /\ device_status' = Put(device_status, th[t].new_name, th[t].status_info)
    /\ th' = [th EXCEPT ![t].pc = "upd_resp"]
    /\ UNCHANGED <<file, devices_config, clock, phase, refresh, served, workload, call>>

\* lines 505-512: the response reads devices_config[new_name]; KeyError is
\* caught at line 516: 500
UpdateRespond(t) ==
    /\ At(t, "upd_resp")
    /\ th' = [th EXCEPT ![t] =
                IF th[t].new_name \in DOMAIN devices_config
                  THEN Respond(th[t], 200, Added(Put(devices_config[th[t].new_name], "status", th[t].status_info)))
                  ELSE Respond(th[t], 500, ServerError)]
    /\ UNCHANGED <<file, devices_config, device_status, clock, phase, refresh, served, workload, call>>

\* ---------------------------------------------------------------- DELETE /devices/<device_name>
\* lines 528-530: the check
DeleteDevice(t, name) ==
    /\ Accept(t, "delete")
    /\ LET req == Request(t, "delete", name, EmptyMap) IN
         th' = [th EXCEPT ![t] =
            IF name \notin DOMAIN devices_config THEN Respond(req, 404, NotFound)
            ELSE [req EXCEPT !.pc = "del_del"]]
    /\ UNCHANGED <<file, devices_config, device_status, clock, phase, refresh, workload, call>>

\* line 533: del devices_config[device_name]; KeyError is caught at line 550: 500
DeleteRemove(t) ==
    /\ At(t, "del_del")
    /\ IF th[t].name \in DOMAIN devices_config
         THEN /\ devices_config' = Del(devices_config, th[t].name)
              /\ th' = [th EXCEPT ![t].pc = "del_status"]
         ELSE /\ devices_config' = devices_config
              /\ th' = [th EXCEPT ![t] = Respond(th[t], 500, ServerError)]
    /\ UNCHANGED <<file, device_status, clock, phase, refresh, served, workload, call>>

\* lines 537-538: del device_status[device_name] when it is there
DeleteStatus(t) ==
    /\ At(t, "del_status")
    /\ device_status' = Del(device_status, th[t].name)
    /\ th' = [th EXCEPT ![t].pc = "del_save"]
    /\ UNCHANGED <<file, devices_config, clock, phase, refresh, served, workload, call>>

\* lines 541-548: save_devices(devices_config) and the response
DeleteSave(t) ==
    /\ At(t, "del_save")
    /\ \E writable \in BOOLEAN :
         LET saved == SaveDevices(file, devices_config, writable) IN
         /\ file' = saved[2]
         /\ th' = [th EXCEPT ![t] = IF saved[1] THEN Respond(th[t], 200, Success)
                                     ELSE Respond(th[t], 500, SaveFailed)]
    /\ UNCHANGED <<devices_config, device_status, clock, phase, refresh, served, workload, call>>

\* ---------------------------------------------------------------- POST /devices/ping/<device_name>
\* lines 346-347: the check
PingSingleDevice(t, name) ==
    /\ Accept(t, "ping")
    /\ LET req == Request(t, "ping", name, EmptyMap) IN
         th' = [th EXCEPT ![t] =
            IF name \notin DOMAIN devices_config THEN Respond(req, 404, NotFound)
            ELSE [req EXCEPT !.pc = "ping_read"]]
    /\ UNCHANGED <<file, devices_config, device_status, clock, phase, refresh, workload, call>>

\* lines 349-350: devices_config[device_name]['ip']; KeyError is caught at
\* line 374: 500
PingRead(t) ==
    /\ At(t, "ping_read")
    /\ th' = [th EXCEPT ![t] =
                IF th[t].name \in DOMAIN devices_config
                   /\ "ip" \in DOMAIN devices_config[th[t].name]
                  THEN [th[t] EXCEPT !.pc = "ping_ping", !.ip = devices_config[th[t].name].ip]
                  ELSE Respond(th[t], 500, ServerError)]
    /\ UNCHANGED <<file, devices_config, device_status, clock, phase, refresh, served, workload, call>>

\* lines 353-361: ping_device(ip_address) and the status_info built from it
PingProbe(t) ==
    /\ At(t, "ping_ping")
    /\ clock' = clock + 1
    /\ th' = [th EXCEPT ![t].pc = "ping_status", ![t].status_info = ProbeStatus(th[t].ip)]
    /\ UNCHANGED <<file, devices_config, device_status, phase, refresh, served, workload, call>>

\* lines 364-372: device_status[device_name] = status_info, and the response
PingStatus(t) ==
    /\ At(t, "ping_status")
    /\ device_status' = Put(device_status, th[t].name, th[t].status_info)
    /\ th' = [th EXCEPT ![t] = Respond(th[t], 200, Pinged(th[t].name, th[t].status_info))]
    /\ UNCHANGED <<file, devices_config, clock, phase, refresh, served, workload, call>>

\* ---------------------------------------------------------------- POST /wake
\* lines 235-280: the record of a registered device_name, else the fields of
\* the body; device['ip'] and device['port'] raise KeyError on a record without
\* them, caught at line 278: 500. The handler writes nothing shared.
WakeDevice(t, data) ==
    /\ Accept(t, "wake")
    /\ \E netup \in BOOLEAN :
         LET req == Request(t, "wake", Get(data, "device_name", "Unknown Device"), data)
             known == req.name \in DOMAIN devices_config
             device == devices_config[req.name]
             mac == IF known THEN device.mac ELSE data.mac
             ip == IF known THEN device.ip ELSE data.ip
             port == IF known THEN device.port ELSE Get(data, "port", DefaultPort)
             returned == SendMagicPacket(mac, ip, port, netup)
         IN  th' = [th EXCEPT ![t] =
                IF data = EmptyMap THEN Respond(req, 400, Error("No JSON data provided"))
                ELSE IF known /\ {"mac", "ip", "port"} \ DOMAIN device # {}
                  THEN Respond(req, 500, ServerError)
                ELSE IF ~known /\ Falsy(data, "mac")
                  THEN Respond(req, 400, Error("MAC address is required"))
                ELSE IF ~known /\ Falsy(data, "ip")
                  THEN Respond(req, 400, Error("IP address is required"))
                ELSE Respond([req EXCEPT !.wol = [called |-> TRUE, mac |-> mac, ip |-> ip,
                                                  port |-> port, returned |-> returned]],
                             IF returned.success THEN 200 ELSE 500,
                             IF returned.success THEN Success
                             ELSE Error("Error sending magic packet"))]
    /\ UNCHANGED <<file, devices_config, device_status, clock, phase, refresh, workload, call>>

\* ---------------------------------------------------------------- the HTTP layer
\* the response is sent and the thread takes the next request
Return(t) ==
    /\ th[t].pc = "done"
    /\ th' = [th EXCEPT ![t] = IdleThread]
    /\ UNCHANGED <<file, devices_config, device_status, clock, phase, refresh, served, workload, call>>

Next ==
    \/ Boot
    \/ RefreshLoad
    \/ \E d \in DOMAIN refresh.worker : PingWorker(d)
    \/ \E d \in DOMAIN refresh.worker : WorkerHang(d)
    \/ RefreshJoin
    \/ RefreshUpdate
    \/ RefreshReturn
    \/ \E t \in Handlers : CheckDeviceStatus(t)
    \/ \E t \in Handlers : GetLoad(t)
    \/ \E t \in Handlers : GetAssign(t)
    \/ \E t \in Handlers : GetMerge(t)
    \/ \E t \in Handlers, data \in Payloads : AddDevice(t, data)
    \/ \E t \in Handlers : AddSave(t)
    \/ \E t \in Handlers : AddPing(t)
    \/ \E t \in Handlers : AddStatus(t)
    \/ \E t \in Handlers : AddRespond(t)
    \/ \E t \in Handlers, name \in Names, data \in UpdatePayloads : UpdateDevice(t, name, data)
    \/ \E t \in Handlers : UpdateRemove(t)
    \/ \E t \in Handlers : UpdateMoveStatus(t)
    \/ \E t \in Handlers : UpdateSet(t)
    \/ \E t \in Handlers : UpdateSave(t)
    \/ \E t \in Handlers : UpdatePing(t)
    \/ \E t \in Handlers : UpdateStatus(t)
    \/ \E t \in Handlers : UpdateRespond(t)
    \/ \E t \in Handlers, name \in Names : DeleteDevice(t, name)
    \/ \E t \in Handlers : DeleteRemove(t)
    \/ \E t \in Handlers : DeleteStatus(t)
    \/ \E t \in Handlers : DeleteSave(t)
    \/ \E t \in Handlers, name \in Names : PingSingleDevice(t, name)
    \/ \E t \in Handlers : PingRead(t)
    \/ \E t \in Handlers : PingProbe(t)
    \/ \E t \in Handlers : PingStatus(t)
    \/ \E t \in Handlers, data \in WakePayloads : WakeDevice(t, data)
    \/ \E t \in Handlers : Return(t)

\* requests served by concurrent threads
Init == Start /\ workload = "threads"
Spec == Init /\ [][Next]_vars
\* requests that do not overlap
SeqInit == Start /\ workload = "sequential"
SeqSpec == SeqInit /\ [][Next]_vars
\* a request that only listings overlap
RaceInit == Start /\ workload = "listing"
RaceSpec == RaceInit /\ [][Next]_vars
\* a request that arrives while only a ping-one or a refresh-all is under way
ProbeInit == Start /\ workload = "probing"
ProbeSpec == ProbeInit /\ [][Next]_vars

\* ---------------------------------------------------------------- direct calls
\* send_magic_packet called with a text, an address and a port
SendMagicPacketCall ==
    /\ workload = "calls"
    /\ call = NoCall
    /\ \E mac \in MacInputs, ip \in IPs, netup \in BOOLEAN :
          call' = [fn |-> "send_magic_packet", mac |-> mac, ip |-> ip, port |-> DefaultPort,
                   netup |-> netup,
                   returned |-> SendMagicPacket(mac, ip, DefaultPort, netup)]
    /\ UNCHANGED <<file, devices_config, device_status, clock, served, phase, workload, th, refresh>>

\* load_devices called on the file as it is
LoadDevicesCall ==
    /\ workload = "calls"
    /\ call.fn \in {"", "load_devices"}
    /\ \E writable \in BOOLEAN :
          /\ file' = LoadFile(file, writable)
          /\ call' = [fn |-> "load_devices", file |-> file, writable |-> writable,
                      returned |-> LoadResult(file)]
    /\ UNCHANGED <<devices_config, device_status, clock, served, phase, workload, th, refresh>>

CallNext ==
    \/ SendMagicPacketCall
    \/ LoadDevicesCall
CallInit ==
    /\ file \in LoadFiles
    /\ devices_config = EmptyMap
    /\ device_status = EmptyMap
    /\ clock = 0
    /\ served = 0
    /\ phase = "boot"
    /\ th = [t \in Handlers |-> IdleThread]
    /\ refresh = IdleRefresh
    /\ call = NoCall
    /\ workload = "calls"
CallSpec == CallInit /\ [][CallNext]_vars

\* ---------------------------------------------------------------- properties
Mutations == {"add", "update", "delete"}
\* thread t has built the response of a request op
Finished(t, op) == th[t].pc = "done" /\ th[t].op = op
\* this step is the arrival of a request op at thread t
Arrives(t, op) == th[t].pc = "idle" /\ th'[t].op = op
\* this step leaves the registry, the file and the status cache as they are
Untouched == devices_config' = devices_config /\ file' = file /\ device_status' = device_status
\* the registry holds what the mutation of thread t asked for
EffectIn(t, devices) ==
    CASE th[t].op = "add" ->
            th[t].name \in DOMAIN devices /\ devices[th[t].name] = th[t].rec
      [] th[t].op = "update" ->
            /\ th[t].new_name \in DOMAIN devices /\ devices[th[t].new_name] = th[t].rec
            /\ th[t].new_name # th[t].name => th[t].name \notin DOMAIN devices
      [] th[t].op = "delete" -> th[t].name \notin DOMAIN devices
\* the status GET /devices lists for a device n of the file
ListedStatus(n) == Get(device_status, n, UnknownStatus(LoadResult(file)[n].ip))

\* C1: when save_devices fails in an add, update or delete, the response is the
\* persistence failure with code 500 and the in-memory registry is what it was
\* when the request arrived.
C1_PersistFailureLeavesRegistry ==
    \A t \in Handlers :
        (th[t].pc = "done" /\ th[t].op \in Mutations /\ th[t].body = SaveFailed)
            => th[t].code = 500 /\ devices_config = th[t].pre.config

\* C2: when an add, update or delete that other handlers (GET /devices among
\* them) ran along with answers success and all those handlers have finished,
\* its effect is in the in-memory registry and in the file.
C2_AcknowledgedMutationKept ==
    \A t \in Handlers :
        (/\ th[t].pc = "done" /\ th[t].op \in Mutations /\ th[t].code = 200
         /\ \A u \in Handlers \ {t} : th[u].pc = "idle")
            => EffectIn(t, devices_config) /\ EffectIn(t, LoadResult(file))

\* C3: when a delete of d answers success, d is neither in the registry nor in
\* the status cache nor in the file a listing reads, so that a ping, update or
\* delete of d that comes next finds no d.
C3_DeletedDeviceGone ==
    \A t \in Handlers :
        (Finished(t, "delete") /\ th[t].code = 200)
            => /\ th[t].name \notin DOMAIN devices_config
               /\ th[t].name \notin DOMAIN device_status
               /\ th[t].name \notin DOMAIN LoadResult(file)

\* C4: when an update that renames old to new has answered success, neither the
\* registry nor the status cache has an entry under old.
C4_RenameLeavesNothingUnderOld ==
    \A t \in Handlers :
        (Finished(t, "update") /\ th[t].code = 200 /\ th[t].new_name # th[t].name)
            => /\ th[t].name \notin DOMAIN devices_config
               /\ th[t].name \notin DOMAIN device_status

\* C5 as stated: once an update has renamed old to new, the status record old
\* had before is never the one under new.
C5_OldStatusNeverUnderNew ==
    \A t \in Handlers :
        (/\ th[t].op = "update" /\ th[t].new_name # th[t].name
         /\ th[t].pc \in {"upd_set", "upd_save", "upd_ping", "upd_status", "upd_resp", "done"}
         /\ th[t].code \in {0, 200} \/ th[t].body = SaveFailed
         /\ th[t].name \in DOMAIN th[t].pre.status)
            => \/ th[t].new_name \notin DOMAIN device_status
               \/ device_status[th[t].new_name] # th[t].pre.status[th[t].name]
\* C5, amended: an update that renames old to new moves the status record of
\* old to new (line 479), where it stays while the registry is set and saved and
\* the device is probed; the update stores the record of its own probe, made
\* after the request arrived, under new only when the save has succeeded, and
\* after a failed save new still has the record of old.
C5_RenameMovesStatusUntilReprobe ==
    [][\A t \in Handlers :
         (th[t].op = "update" /\ th[t].new_name # th[t].name /\ th'[t] # th[t]) =>
            LET old == th[t].name
                new == th[t].new_name
            IN  /\ (th[t].pc = "upd_move" /\ old \in DOMAIN device_status)
                      => /\ new \in DOMAIN device_status'
                         /\ device_status'[new] = device_status[old]
                /\ th[t].pc \in {"upd_set", "upd_save", "upd_ping"}
                      => device_status' = device_status
                /\ th[t].pc = "upd_status"
                      => /\ new \in DOMAIN device_status'
                         /\ device_status'[new] = th[t].status_info
                         /\ \A n \in DOMAIN th[t].pre.status :
                               th[t].pre.status[n].last_checked < th[t].status_info.last_checked
                /\ (th[t].pc = "done" /\ th[t].body = SaveFailed /\ old \in DOMAIN th[t].pre.status)
                      => /\ new \in DOMAIN device_status
                         /\ device_status[new] = th[t].pre.status[old]
      ]_vars
\* an update that renamed a device with a status record has answered success
C5_Witness ==
    \E t \in Handlers :
        /\ Finished(t, "update") /\ th[t].code = 200 /\ th[t].new_name # th[t].name
        /\ th[t].name \in DOMAIN th[t].pre.status
        /\ th[t].new_name \in DOMAIN device_status
        /\ device_status[th[t].new_name] = th[t].status_info

\* C6 as stated: when an add has answered success, and nothing has refreshed or
\* pinged since, a listing shows the device with status.online = null.
C6_AddedDeviceListedUnknown ==
    \A t \in Handlers :
        (Finished(t, "add") /\ th[t].code = 200)
            => /\ th[t].name \in DOMAIN LoadResult(file)
               /\ ListedStatus(th[t].name).online = None
\* C6, amended: when an add has answered success, a listing shows the device
\* with the record that was added and the status of the probe the add itself
\* made (online true or false, last_checked set); a listing shows
\* status.online = null exactly for the devices that have no status entry.
C6_AddedDeviceListedWithProbeStatus ==
    \A t \in Handlers :
        /\ (Finished(t, "add") /\ th[t].code = 200)
              => /\ th[t].name \in DOMAIN LoadResult(file)
                 /\ LoadResult(file)[th[t].name] = th[t].rec
                 /\ th[t].name \in DOMAIN device_status
                 /\ ListedStatus(th[t].name) = th[t].status_info
                 /\ th[t].status_info.online \in {"true", "false"}
                 /\ th[t].status_info.last_checked # NoTime
        /\ (Finished(t, "get") /\ th[t].code = 200)
              => \A n \in DOMAIN th[t].body :
                    /\ n \in DOMAIN devices_config
                    /\ th[t].body[n] = Put(devices_config[n], "status", th[t].body[n].status)
                    /\ th[t].body[n].status.online = None <=> n \notin DOMAIN device_status
                    /\ n \in DOMAIN device_status => th[t].body[n].status = device_status[n]
\* an add has answered success
C6_Witness ==
    \E t \in Handlers :
        /\ Finished(t, "add") /\ th[t].code = 200
        /\ ListedStatus(th[t].name).online \in {"true", "false"}

\* C7 as stated: add answers 400 when name, MAC or IP is empty or absent;
\* update answers 404 when the name of the URL is not registered and otherwise
\* 400 when MAC or IP is empty or absent; delete answers 404 when the name is
\* not registered; and none of these changes the registry, the file or the
\* status cache.
C7_RejectedAsStated ==
    [][\A t \in Handlers :
         LET r == th'[t]
             rejected(code) == r.pc = "done" /\ r.code = code /\ Untouched
             blank(k) == Falsy(r.data, k)
         IN  /\ (Arrives(t, "add") /\ (blank("name") \/ blank("mac") \/ blank("ip")))
                   => rejected(400)
             /\ (Arrives(t, "update") /\ r.name \notin DOMAIN devices_config)
                   => rejected(404)
             /\ (Arrives(t, "update") /\ r.name \in DOMAIN devices_config
                                      /\ (blank("mac") \/ blank("ip")))
                   => rejected(400)
             /\ (Arrives(t, "delete") /\ r.name \notin DOMAIN devices_config)
                   => rejected(404)
      ]_vars
\* C7, amended: as stated, except that an update with an empty body answers 400
\* whether or not the name is registered: update answers 400 for an empty body,
\* else 404 when the name is not registered, else 400 when MAC or IP is empty
\* or absent. A request answered 400 or 404 changes nothing.
C7_RejectedRequestChangesNothing ==
    [][\A t \in Handlers :
         LET r == th'[t]
             rejected(code) == r.pc = "done" /\ r.code = code /\ Untouched
             blank(k) == Falsy(r.data, k)
         IN  /\ (Arrives(t, "add") /\ (blank("name") \/ blank("mac") \/ blank("ip")))
                   => rejected(400)
             /\ (Arrives(t, "update") /\ r.data = EmptyMap)
                   => rejected(400)
             /\ (Arrives(t, "update") /\ r.data # EmptyMap /\ r.name \notin DOMAIN devices_config)
                   => rejected(404)
             /\ (Arrives(t, "update") /\ r.data # EmptyMap /\ r.name \in DOMAIN devices_config
                                      /\ (blank("mac") \/ blank("ip")))
                   => rejected(400)
             /\ (Arrives(t, "delete") /\ r.name \notin DOMAIN devices_config)
                   => rejected(404)
             /\ (r # th[t] /\ r.code \in {400, 404}) => Untouched
      ]_vars
\* an update of a name that is not registered, with an empty body, was answered 400
C7_Witness ==
    \E t \in Handlers :
        /\ Finished(t, "update") /\ th[t].code = 400 /\ th[t].data = EmptyMap
        /\ th[t].name \notin DOMAIN devices_config
        /\ devices_config = th[t].pre.config /\ device_status = th[t].pre.status

\* C8: a ping of a name that was registered when the request arrived answers
\* success, and the status entry of that name is then the record it returns.
C8_PingOfRegisteredNameStoresStatus ==
    \A t \in Handlers :
        (Finished(t, "ping") /\ th[t].name \in DOMAIN th[t].pre.config)
            => /\ th[t].code = 200
               /\ th[t].name \in DOMAIN device_status
               /\ device_status[th[t].name] = th[t].body.status

\* C9: while check_all_devices runs, the result of a worker that has finished
\* is in the status cache even though another worker is still running or hung.
C9_FinishedProbeVisible ==
    \A d, e \in DOMAIN refresh.worker :
        (/\ refresh.pc \in {"join", "update"}
         /\ refresh.worker[d] = "done"
         /\ refresh.worker[e] \in {"running", "hung"}
         /\ "ip" \in DOMAIN refresh.devices[e])
            => d \in DOMAIN device_status /\ device_status[d] = refresh.results[d]

\* C10: when a worker of check_all_devices has raised, no other worker is kept
\* from probing, the join does not wait for the worker that raised, and when
\* check_all_devices is through, every worker that was waited for has probed and
\* the results of the workers that finished are in the status cache.
C10_WorkerExceptionIsolated ==
    (\E e \in DOMAIN refresh.worker : refresh.worker[e] = "raised") =>
        /\ \A d \in DOMAIN refresh.worker :
              (NoResponsePending /\ refresh.worker[d] \in {"running", "hung"})
                  => ENABLED PingWorker(d)
        /\ (RefreshAt("join") /\ refresh.worker[Head(refresh.tojoin)] = "raised")
              => ENABLED RefreshJoin
        /\ refresh.pc = "finished" =>
              \A d \in DOMAIN refresh.worker :
                 /\ refresh.worker[d] # "running"
                 /\ refresh.worker[d] = "done"
                       => /\ d \in DOMAIN device_status
                          /\ device_status[d] = refresh.results[d]
                          /\ device_status[d].ip = refresh.devices[d].ip
\* check_all_devices is through with a worker that raised and one that finished
C10_Witness ==
    /\ refresh.pc = "finished"
    /\ \E e \in DOMAIN refresh.worker : refresh.worker[e] = "raised"
    /\ \E d \in DOMAIN refresh.worker :
          /\ refresh.worker[d] = "done"
          /\ d \in DOMAIN device_status /\ device_status[d] = refresh.results[d]

\* the text is a MAC: without ':' and '-' it is exactly 12 hex digits
ValidMac(mac) ==
    LET stripped == SelectSeq(mac, LAMBDA c : c \notin {":", "-"})
    IN  Len(stripped) = 12 /\ \A i \in 1..12 : stripped[i] \in HexDigits
\* 6 bytes 0xFF, then AA BB CC DD EE FF 16 times
ExpectedPacket ==
    [i \in 1..102 |-> IF i <= 6 THEN 255 ELSE <<170, 187, 204, 221, 238, 255>>[((i - 7) % 6) + 1]]
\* the value is a mapping from names to records
IsMapping(v) == "yaml_type" \notin DOMAIN v

\* C15: send_magic_packet, called with a text that is no MAC, returns failure
\* and sends no datagram.
C15_InvalidMacSendsNothing ==
    (call.fn = "send_magic_packet" /\ ~ValidMac(call.mac))
        => ~call.returned.success /\ ~call.returned.datagram.sent

\* C16: every spelling of the MAC AA:BB:CC:DD:EE:FF (':' or '-' or nothing
\* between the bytes, upper, lower or mixed case) decodes to the same 6 bytes,
\* and the datagram send_magic_packet sends for it carries the same payload of
\* 102 bytes: 6 bytes 0xFF, then the 6 bytes of the MAC 16 times; it is sent
\* whenever the socket works.
C16_OnePayloadForAllSpellings ==
    (call.fn = "send_magic_packet" /\ call.mac \in MacForms) =>
        /\ ValidMac(call.mac)
        /\ call.returned.success <=> call.netup
        /\ call.returned.datagram.sent <=> call.netup
        /\ call.returned.datagram.sent =>
              /\ call.returned.datagram.payload = ExpectedPacket
              /\ Len(call.returned.datagram.payload) = 102
\* a spelling with '-' and lower-case letters was sent
C16_Witness ==
    /\ call.fn = "send_magic_packet"
    /\ call.mac \in MacForms
    /\ \E i \in 1..Len(call.mac) : call.mac[i] = "-"
    /\ \E i \in 1..Len(call.mac) : call.mac[i] = "a"
    /\ \E i \in 1..Len(call.mac) : call.mac[i] = ":"
    /\ call.returned.datagram.sent
    /\ call.returned.datagram.payload = ExpectedPacket

\* C17: load_devices returns a mapping from names to records for every state
\* of the file: the empty mapping, with the file created with an empty devices
\* mapping and a version marker, when the file is missing (and can be written);
\* the empty mapping when the file cannot be parsed or has no devices mapping.
C17_LoadReturnsMapping ==
    call.fn = "load_devices" =>
        /\ IsMapping(call.returned)
        /\ (call.file.kind = "missing" /\ call.writable)
              => /\ call.returned = EmptyMap
                 /\ file.kind = "yaml" /\ file.data.devices = EmptyMap
                 /\ "version" \in DOMAIN file.data
        /\ (\/ call.file.kind # "yaml"
            \/ "devices" \notin DOMAIN call.file.data
            \/ ~IsMapping(call.file.data.devices))
              => call.returned = EmptyMap

\* C11: check_all_devices has started a worker for every device before it
\* waits for any; a worker that is still probing can finish whatever the other
\* workers are doing; and when every probe takes at most PingLimit seconds the
\* join loop is left after the longest probe, at most PingLimit seconds after
\* the start, however many devices there are.
C11_ProbesRunInParallel ==
    /\ refresh.pc \in {"join", "update"} => DOMAIN refresh.worker = DOMAIN refresh.devices
    /\ (NoResponsePending /\ refresh.pc \in {"join", "update"}) =>
          \A d \in DOMAIN refresh.worker :
              refresh.worker[d] = "running" => ENABLED PingWorker(d)
    /\ (refresh.pc = "join" /\ Len(refresh.tojoin) = Cardinality(DOMAIN refresh.devices)) =>
          \A finish \in [DOMAIN refresh.devices -> 1..PingLimit] :
              /\ JoinLoop(refresh.tojoin, finish, 0) <= PingLimit
              /\ \E d \in DOMAIN finish : JoinLoop(refresh.tojoin, finish, 0) = finish[d]
\* the worker created second has finished while the one created first probes
C11_Witness ==
    /\ refresh.pc = "join"
    /\ refresh.tojoin = NameOrder
    /\ refresh.worker[NameOrder[1]] = "running"
    /\ refresh.worker[NameOrder[2]] = "done"

\* C12: in a run of requests served one after the other, when an add, update
\* or delete has built its success response the devices mapping of the file is
\* the in-memory registry.
C12_SavedFileIsRegistry ==
    \A t \in Handlers :
        (th[t].pc = "done" /\ th[t].op \in Mutations /\ th[t].code = 200)
            => file.kind = "yaml" /\ file.data.devices = devices_config
\* the second request of a run was a mutation that changed the registry and
\* answered success
C12_Witness ==
    \E t \in Handlers :
        /\ th[t].pc = "done" /\ th[t].op \in Mutations /\ th[t].code = 200
        /\ LoadResult(file) = devices_config
        /\ devices_config # th[t].pre.config
        /\ served = 2

\* C13: every record of the registry has a MAC that is 12 hex digits once ':'
\* and '-' are stripped.
C13_RegistryMacsValid ==
    \A n \in DOMAIN devices_config : ValidMac(devices_config[n].mac)

\* C14: a wake whose device_name is registered calls send_magic_packet with the
\* mac, ip and port of the registry record; any other wake is answered 400
\* without a send when its mac or ip is missing, and else calls
\* send_magic_packet with the mac, ip and port of the request (port 9 when none
\* is given).
C14_WakeUsesRegistryThenRequest ==
    \A t \in Handlers :
        Finished(t, "wake") =>
            LET data == th[t].data
                registry == th[t].pre.config
                wol == th[t].wol
            IN  IF th[t].name \in DOMAIN registry
                  THEN /\ wol.called
                       /\ wol.mac = registry[th[t].name].mac
                       /\ wol.ip = registry[th[t].name].ip
                       /\ wol.port = registry[th[t].name].port
                ELSE IF Falsy(data, "mac") \/ Falsy(data, "ip")
                  THEN th[t].code = 400 /\ ~wol.called
                ELSE /\ wol.called
                     /\ wol.mac = data.mac
                     /\ wol.ip = data.ip
                     /\ wol.port = Get(data, "port", DefaultPort)

\* C18: POST /devices/check has its response built in the step that starts the
\* refresh; and when that refresh, none of whose workers outlasted its join,
\* publishes its results, the status cache holds the result of this refresh
\* for every device the refresh loaded.
C18_RefreshCoversLoadedDevices ==
    [][/\ \A t \in Handlers : Arrives(t, "check") => th'[t].pc = "done" /\ refresh'.pc = "load"
       /\ (/\ phase = "serving"
           /\ refresh.pc = "update" /\ refresh'.pc = "finished"
           /\ \A d \in DOMAIN refresh.worker : refresh.worker[d] # "hung")
          => \A d \in DOMAIN refresh.devices :
                /\ d \in DOMAIN refresh.results
                /\ d \in DOMAIN device_status'
                /\ device_status'[d] = refresh.results[d]]_vars

\* C20: in a run of requests served one after the other, whenever no request
\* and no refresh is in progress every key of the status cache is a name of
\* the in-memory registry.
C20_StatusKeysAreRegistered ==
    (phase = "serving" /\ refresh.pc = "idle" /\ \A t \in Handlers : th[t].pc = "idle")
        => DOMAIN device_status \subseteq DOMAIN devices_config

\* C19: when a delete that arrived while a ping-one or a refresh-all was under
\* way has built its success response, and every other request and the refresh
\* have finished, the status cache has no entry under the deleted name.
C19_DeletedDeviceHasNoStatus ==
    \A t \in Handlers :
        (/\ Finished(t, "delete") /\ th[t].code = 200
         /\ refresh.pc = "idle"
         /\ \A u \in Handlers \ {t} : th[u].pc = "idle")
            => th[t].name \notin DOMAIN device_status

\* C21: in a run of requests served one after the other, when an update has
\* built its success response the registry has as many devices as when the
\* request arrived, and every device other than the one of the old name has
\* the record it had then.
C21_UpdateLeavesOtherDevices ==
    \A t \in Handlers :
        (Finished(t, "update") /\ th[t].code = 200) =>
            /\ Cardinality(DOMAIN devices_config) = Cardinality(DOMAIN th[t].pre.config)
            /\ \A n \in DOMAIN th[t].pre.config \ {th[t].name} :
                  /\ n \in DOMAIN devices_config
                  /\ devices_config[n] = th[t].pre.config[n]

====
